---- MODULE Spec2Model ----
(***************************************************************************)
(* The announcement pipeline of the Archdiocese of Lipa API:               *)
(*   services/announcementService.js  createAnnouncements,                 *)
(*                                    sendAnnouncementEmailToUsers,        *)
(*                                    createEmailHtml                      *)
(*   routes/announcementRoutes.js     POST /, POST /group/:groupId, GET /  *)
(*                                                                         *)
(* One creation call is in flight at a time; every await of the code is a  *)
(* separate step, so the uploads, the file-row inserts and the email sends *)
(* of a call complete in any order, and GET / may run between any two      *)
(* steps.  Operations that a rejected Promise.all leaves behind keep       *)
(* completing after the call has answered.                                 *)
(***************************************************************************)
EXTENDS Integers, Sequences, FiniteSets

(* ---------------------------------------------------------------- bounds *)
MaxFiles == 2
MaxRequests == 2

(* ---------------------------------------------------------------- values *)
NULL == "null"
UNDEF == "undefined"
EMPTY == ""

Users == {"u1", "u2", "u3"}
Groups == {"g1", "g2"}
Callers == {"u1", "u2"}

\* rows of the group_members table: g1 has two members, g2 has none
group_members == {[user_id |-> "u1", group_id |-> "g1"],
                  [user_id |-> "u3", group_id |-> "g1"]}

email(u) == u \o "@mail"

\* JavaScript truthiness of a groupId value (null, undefined and "" are falsy)
Truthy(v) == v \notin {NULL, UNDEF, EMPTY}

\* a || b
OrElse(a, b) == IF Truthy(a) THEN a ELSE b

\* a ?? b
Coalesce(a, b) == IF a \in {NULL, UNDEF} THEN b ELSE a

MimeTypes == {"image/png", UNDEF}

\* a file as multer hands it to the route (req.files[i])
MulterFile(m) == [originalname |-> "a.png", mimetype |-> m, name |-> UNDEF, type |-> UNDEF]

MulterFiles == UNION {[1..n -> {MulterFile(m) : m \in MimeTypes}] : n \in 0..MaxFiles}

\* what multer produces for an HTTP upload: the mimetype is always a string
UploadedFiles == UNION {[1..n -> {MulterFile("image/png")}] : n \in 0..MaxFiles}

\* the route's "File-like object": name/type/size plus arrayBuffer() and stream()
fileObj(file) == [originalname |-> UNDEF, mimetype |-> UNDEF,
                  name |-> file.originalname, type |-> file.mimetype]

ProcessFiles(files) == [i \in 1..Len(files) |-> fileObj(files[i])]

VARIABLES
  enabled,             \* users with email_notifications_enabled = true
  announcement,        \* the announcement table, in insertion order
  announcement_files,  \* the announcement_files table
  clock,               \* the data store's clock (created_at default)
  nreq,                \* creation calls started so far
  pc,                  \* where the call in flight is suspended
  req,                 \* the call in flight: via, userId, groupId, files
  up,                  \* per file: state of its storage upload
  fileData,            \* createAnnouncements' fileData array (file indices)
  annIssued,           \* the announcement insert has been issued
  annId,               \* fetchData.id, 0 before the insert returned
  ins,                 \* per fileData entry: state of its announcement_files insert
  memberIds,           \* result of the group_members query
  emailQueries,        \* email-stage queries issued by this call
  attempts,            \* per user: resend.emails.send calls issued by this call
  sends,               \* per recipient: state of its send
  resp,                \* answer of the call
  lookup,              \* outcome of the group route's membership lookup
  mailError,           \* which step of the email stage failed, if any
  atStart,             \* the two tables as the call found them
  getResp,             \* answer of the last GET / since the call started
  getAsOf              \* the store's clock when that GET / was answered

vars == <<enabled, announcement, announcement_files, clock, nreq, pc, req, up,
          fileData, annIssued, annId, ins, memberIds, emailQueries, attempts,
          sends, resp, lookup, mailError, atStart, getResp, getAsOf>>

store == <<announcement, announcement_files, clock>>
mail == <<memberIds, emailQueries, attempts, sends, mailError>>
reader == <<getResp, getAsOf>>

NoResp == [status |-> "none", data |-> <<>>]

NoReq == [via |-> "none", userId |-> NULL, groupId |-> NULL, files |-> <<>>]

Init ==
  /\ enabled \in {{}, {"u1", "u2"}}
  /\ announcement = <<>>
  /\ announcement_files = {}
  /\ clock = 1
  /\ nreq = 0
  /\ pc = "idle"
  /\ req = NoReq
  /\ up = <<>>
  /\ fileData = <<>>
  /\ annIssued = FALSE
  /\ annId = 0
  /\ ins = <<>>
  /\ memberIds = {}
  /\ emailQueries = 0
  /\ attempts = [u \in Users |-> 0]
  /\ sends = [u \in Users |-> "none"]
  /\ resp = "none"
  /\ lookup = "none"
  /\ mailError = "none"
  /\ atStart = [announcement |-> 0, announcement_files |-> {}]
  /\ getResp = NoResp
  /\ getAsOf = 0

(* ------------------------------------------------------- helper operators *)
RouteVias == {"post", "group"}

\* the route answers 201 / 500; a direct caller sees the return / the throw
Success(via) == IF via \in RouteVias THEN "201" ELSE "returned"
Failure(via) == IF via \in RouteVias THEN "500" ELSE "threw"

Pending(f) == {i \in DOMAIN f : f[i] = "pending"}

\* nothing of the previous call is still in flight
Drained == Pending(up) = {} /\ Pending(ins) = {}

RECURSIVE InsertDesc(_, _)
InsertDesc(row, sorted) ==
  IF sorted = <<>> THEN <<row>>
  ELSE IF row.created_at >= Head(sorted).created_at THEN <<row>> \o sorted
  ELSE <<Head(sorted)>> \o InsertDesc(row, Tail(sorted))

RECURSIVE OrderByCreatedAtDesc(_)
OrderByCreatedAtDesc(rows) ==
  IF rows = <<>> THEN <<>>
  ELSE InsertDesc(Head(rows), OrderByCreatedAtDesc(Tail(rows)))

IsPublic(row) == row.visibility = "public"

\* faulty variant: no visibility filter
AnyVisibility(rows) == rows

\* .eq("visibility", "public")
EqVisibilityPublic(rows) == SelectSeq(rows, IsPublic)

\* select("*, announcement_files(*), users:user_id(name, email)")
Joined(row) ==
  [id |-> row.id, visibility |-> row.visibility, group_id |-> row.group_id,
   user_id |-> row.user_id, created_at |-> row.created_at,
   announcement_files |-> {f \in announcement_files : f.announcement_id = row.id},
   users |-> email(row.user_id)]

\* faulty variant: visibility decided by groupId !== null
NewAnnouncementNonNull(userId, groupId) ==
  [id |-> Len(announcement) + 1,
   visibility |-> IF groupId # NULL THEN "private" ELSE "public",
   group_id |-> Coalesce(groupId, NULL),
   user_id |-> userId,
   created_at |-> clock]

\* the row createAnnouncements inserts (id and created_at are the store's)
NewAnnouncement(userId, groupId) ==
  [id |-> Len(announcement) + 1,
   visibility |-> IF Truthy(groupId) THEN "private" ELSE "public",
   group_id |-> Coalesce(groupId, NULL),
   user_id |-> userId,
   created_at |-> clock]

\* the entry createAnnouncements pushes to fileData for file k
FileEntry(k) == [url |-> k, name |-> k, type |-> req.files[k].mimetype]

\* file.type.startsWith("image/") throws a TypeError when type is undefined
createEmailHtmlThrows ==
  \E j \in 1..Len(fileData) : FileEntry(fileData[j]).type = UNDEF

\* faulty variant: the group filter is not applied
QueryUsersAllOptedIn == enabled

\* the rows the users query returns
QueryUsers ==
  IF Truthy(req.groupId) THEN {u \in enabled : u \in memberIds} ELSE enabled

\* rows of group_members with group_id = g
GroupMemberIds(g) == {m.user_id : m \in {x \in group_members : x.group_id = g}}

\* faulty variant: the lookup does not filter on the group
MembershipOfUser(u, g) == {m \in group_members : m.user_id = u}

\* .eq("user_id", u).eq("group_id", g).single(): data only for exactly one row
Membership(u, g) == {m \in group_members : m.user_id = u /\ m.group_id = g}

(* ------------------------------------------------ createAnnouncements *)
Throw == pc' = "done" /\ resp' = Failure(req.via)
Return == pc' = "done" /\ resp' = Success(req.via)

\* first synchronous stretch of createAnnouncements({data, userId, groupId}):
\* files.map starts every upload (or throws on file.originalname.split),
\* without files the announcement insert is issued at once
createAnnouncements(r) ==
  LET n == Len(r.files)
      up0 == [i \in 1..n |-> IF r.files[i].originalname = UNDEF
                              THEN "typeerror" ELSE "pending"]
  IN /\ req' = r
     /\ fileData' = <<>>
     /\ annId' = 0
     /\ ins' = <<>>
     /\ memberIds' = {}
     /\ emailQueries' = 0
     /\ attempts' = [u \in Users |-> 0]
     /\ sends' = [u \in Users |-> "none"]
     /\ mailError' = "none"
     /\ up' = up0
     /\ IF n > 0
        THEN /\ annIssued' = FALSE
             /\ IF \E i \in 1..n : up0[i] = "typeerror"
                THEN pc' = "done" /\ resp' = Failure(r.via)
                ELSE pc' = "uploading" /\ resp' = "none"
        ELSE /\ annIssued' = TRUE
             /\ pc' = "insertAnn"
             /\ resp' = "none"

\* bookkeeping of a new call
StartCall ==
  /\ atStart' = [announcement |-> Len(announcement),
                 announcement_files |-> announcement_files]
  /\ getResp' = NoResp
  /\ getAsOf' = 0

CanStart == pc \in {"idle", "done"} /\ Drained /\ nreq < MaxRequests

\* router.post("/")
PostAnnouncement ==
  \E u \in Callers, body \in {UNDEF, EMPTY} \cup Groups, files \in UploadedFiles :
    /\ CanStart
    /\ nreq' = nreq + 1
    /\ createAnnouncements([via |-> "post", userId |-> u, groupId |-> OrElse(body, NULL),
              files |-> ProcessFiles(files)])
    /\ lookup' = "none"
    /\ StartCall
    /\ UNCHANGED <<enabled, store>>

\* router.post("/group/:groupId") up to the membership lookup
PostGroup ==
  \E u \in Callers, g \in Groups, files \in UploadedFiles :
    /\ CanStart
    /\ nreq' = nreq + 1
    /\ req' = [via |-> "group", userId |-> u, groupId |-> g, files |-> files]
    /\ pc' = "membership"
    /\ resp' = "none"
    /\ up' = <<>>
    /\ fileData' = <<>>
    /\ annIssued' = FALSE
    /\ annId' = 0
    /\ ins' = <<>>
    /\ memberIds' = {}
    /\ emailQueries' = 0
    /\ attempts' = [x \in Users |-> 0]
    /\ sends' = [x \in Users |-> "none"]
    /\ mailError' = "none"
    /\ lookup' = "none"
    /\ StartCall
    /\ UNCHANGED <<enabled, store>>

\* the membership lookup returns: 403, or the files are processed and
\* createAnnouncements is called
MembershipLookup ==
  /\ pc = "membership"
  /\ \E membershipError \in BOOLEAN :
       LET membership == IF membershipError THEN {} ELSE Membership(req.userId, req.groupId)
       IN IF membershipError \/ Cardinality(membership) # 1
          THEN /\ pc' = "done"
               /\ resp' = "403"
               /\ lookup' = IF membershipError THEN "error" ELSE "missing"
               /\ UNCHANGED <<req, up, fileData, annIssued, annId, ins, mail>>
          ELSE /\ lookup' = "found"
               /\ createAnnouncements([via |-> "group", userId |-> req.userId,
                         groupId |-> req.groupId, files |-> ProcessFiles(req.files)])
  /\ UNCHANGED <<enabled, store, nreq, atStart, reader>>

\* a caller of the exported createAnnouncements
DirectCall ==
  \E u \in Callers, g \in {NULL, EMPTY} \cup Groups, files \in MulterFiles :
    /\ CanStart
    /\ nreq' = nreq + 1
    /\ createAnnouncements([via |-> "direct", userId |-> u, groupId |-> g, files |-> files])
    /\ lookup' = "none"
    /\ StartCall
    /\ UNCHANGED <<enabled, store>>

\* sendAnnouncementEmailToUsers up to its first await
sendAnnouncementEmailToUsers ==
  /\ emailQueries' = emailQueries + 1
  /\ pc' = IF Truthy(req.groupId) THEN "groupQuery" ELSE "userQuery"
  /\ resp' = "none"
  /\ UNCHANGED <<memberIds, attempts, sends, mailError>>

\* faulty variant: an upload error is not thrown
AwaitUploadsSwallowsError(uploadError, up1) ==
  IF Pending(up1) = {}
  THEN pc' = "insertAnn" /\ annIssued' = TRUE /\ UNCHANGED resp
  ELSE UNCHANGED <<pc, resp, annIssued>>

\* faulty variant: the first upload that succeeds lets the call go on
AwaitUploadsFirstDone(uploadError, up1) ==
  IF uploadError
  THEN Throw /\ UNCHANGED annIssued
  ELSE pc' = "insertAnn" /\ annIssued' = TRUE /\ UNCHANGED resp

\* await Promise.all(data.files.map(...)) after one upload settled, up1 being
\* the uploads' states then: the first error rejects, the last success resumes
\* createAnnouncements, which issues the announcement insert
AwaitUploads(uploadError, up1) ==
  IF uploadError
  THEN Throw /\ UNCHANGED annIssued
  ELSE IF Pending(up1) = {}
       THEN pc' = "insertAnn" /\ annIssued' = TRUE /\ UNCHANGED resp
       ELSE UNCHANGED <<pc, resp, annIssued>>

\* one storage upload returns
UploadDone ==
  \E i \in Pending(up), uploadError \in BOOLEAN :
    /\ up' = [up EXCEPT ![i] = IF uploadError THEN "error" ELSE "ok"]
    /\ fileData' = IF uploadError THEN fileData ELSE Append(fileData, i)
    /\ IF pc = "uploading"
       THEN AwaitUploads(uploadError, up')
       ELSE UNCHANGED <<pc, resp, annIssued>>
    /\ UNCHANGED <<enabled, store, nreq, req, annId, ins, mail, lookup, atStart,
                   reader>>

\* the announcement insert returns
InsertAnnouncementDone ==
  /\ pc = "insertAnn"
  /\ \E error \in BOOLEAN :
       IF error
       THEN /\ Throw
            /\ UNCHANGED <<store, annId, ins, mail>>
       ELSE LET row == NewAnnouncement(req.userId, req.groupId)
            IN /\ announcement' = Append(announcement, row)
               /\ clock' = clock + 1
               /\ annId' = row.id
               /\ UNCHANGED announcement_files
               /\ IF Len(fileData) > 0
                  THEN /\ ins' = [j \in 1..Len(fileData) |-> "pending"]
                       /\ pc' = "insertFiles"
                       /\ UNCHANGED <<resp, mail>>
                  ELSE /\ UNCHANGED ins
                       /\ sendAnnouncementEmailToUsers
  /\ UNCHANGED <<enabled, nreq, req, up, fileData, annIssued, lookup, atStart,
                 reader>>

\* one announcement_files insert returns
InsertFileDone ==
  \E j \in Pending(ins), insertError \in BOOLEAN :
    /\ ins' = [ins EXCEPT ![j] = IF insertError THEN "error" ELSE "ok"]
    /\ announcement_files' =
         IF insertError THEN announcement_files
         ELSE announcement_files \cup
                {[announcement_id |-> annId, url |-> FileEntry(fileData[j]).url]}
    /\ IF pc = "insertFiles"
       THEN IF insertError
            THEN Throw /\ UNCHANGED mail
            ELSE IF Pending(ins') = {}
                 THEN sendAnnouncementEmailToUsers
                 ELSE UNCHANGED <<pc, resp, mail>>
       ELSE UNCHANGED <<pc, resp, mail>>
    /\ UNCHANGED <<enabled, announcement, clock, nreq, req, up, fileData,
                   annIssued, annId, lookup, atStart, reader>>

\* the group_members query returns
GroupQueryDone ==
  /\ pc = "groupQuery"
  /\ \E groupError \in BOOLEAN :
       LET groupMembers == GroupMemberIds(req.groupId)
       IN IF groupError \/ groupMembers = {}
          THEN /\ Return
               /\ mailError' = IF groupError THEN "groupQuery" ELSE mailError
               /\ UNCHANGED <<memberIds, emailQueries, attempts, sends>>
          ELSE /\ memberIds' = groupMembers
               /\ emailQueries' = emailQueries + 1
               /\ pc' = "userQuery"
               /\ UNCHANGED <<resp, attempts, sends, mailError>>
  /\ UNCHANGED <<enabled, store, nreq, req, up, fileData, annIssued, annId, ins,
                 lookup, atStart, reader>>

\* the users query returns; the HTML is rendered and every send is issued
UserQueryDone ==
  /\ pc = "userQuery"
  /\ \E error \in BOOLEAN :
       LET users == QueryUsers
       IN IF error \/ users = {} \/ createEmailHtmlThrows
          THEN /\ Return
               /\ mailError' = IF error THEN "userQuery"
                               ELSE IF users = {} THEN mailError ELSE "render"
               /\ UNCHANGED <<memberIds, emailQueries, attempts, sends>>
          ELSE /\ attempts' = [u \in Users |->
                                 IF u \in users THEN attempts[u] + 1 ELSE attempts[u]]
               /\ sends' = [u \in Users |-> IF u \in users THEN "pending" ELSE sends[u]]
               /\ pc' = "sending"
               /\ UNCHANGED <<resp, memberIds, emailQueries, mailError>>
  /\ UNCHANGED <<enabled, store, nreq, req, up, fileData, annIssued, annId, ins,
                 lookup, atStart, reader>>

\* faulty variant: a failed send is not caught
SendDoneRethrows ==
  /\ pc = "sending"
  /\ \E u \in Pending(sends), sendFails \in BOOLEAN :
       /\ sends' = [sends EXCEPT ![u] = IF sendFails THEN "failed" ELSE "sent"]
       /\ IF sendFails
          THEN Throw
          ELSE IF Pending(sends') = {} THEN Return ELSE UNCHANGED <<pc, resp>>
  /\ UNCHANGED <<enabled, store, nreq, req, up, fileData, annIssued, annId, ins,
                 memberIds, emailQueries, attempts, mailError, lookup, atStart,
                 reader>>

\* one resend.emails.send settles; its failure is caught in the callback
SendDone ==
  /\ pc = "sending"
  /\ \E u \in Pending(sends), sendFails \in BOOLEAN :
       /\ sends' = [sends EXCEPT ![u] = IF sendFails THEN "failed" ELSE "sent"]
       /\ IF Pending(sends') = {}
          THEN Return
          ELSE UNCHANGED <<pc, resp>>
  /\ UNCHANGED <<enabled, store, nreq, req, up, fileData, annIssued, annId, ins,
                 memberIds, emailQueries, attempts, mailError, lookup, atStart,
                 reader>>

\* router.get("/")
GetAnnouncements ==
  /\ \E error \in BOOLEAN :
       getResp' =
         IF error THEN [status |-> "500", data |-> <<>>]
         ELSE LET rows == OrderByCreatedAtDesc(EqVisibilityPublic(announcement))
              IN [status |-> "200",
                  data |-> [i \in 1..Len(rows) |-> Joined(rows[i])]]
  /\ getAsOf' = clock
  /\ UNCHANGED <<enabled, store, nreq, pc, req, up, fileData, annIssued, annId,
                 ins, mail, resp, lookup, atStart>>

Next ==
  \/ PostAnnouncement
  \/ PostGroup
  \/ MembershipLookup
  \/ DirectCall
  \/ UploadDone
  \/ InsertAnnouncementDone
  \/ InsertFileDone
  \/ GroupQueryDone
  \/ UserQueryDone
  \/ SendDone
  \/ GetAnnouncements

Spec == Init /\ [][Next]_vars

(* ------------------------------------------------------------ properties *)
\* the row this call inserted
Row == announcement[annId]

\* announcement_files rows that reference the row this call inserted
FileRows == {f \in announcement_files : f.announcement_id = annId}

\* addresses to which this call issued a send
Addresses == {email(u) : u \in {x \in Users : attempts[x] > 0}}

Emails(S) == {email(u) : u \in S}

NoEmailActivity == emailQueries = 0 /\ \A u \in Users : attempts[u] = 0 /\ sends[u] = "none"

IsMember(u, g) == [user_id |-> u, group_id |-> g] \in group_members

Failed == pc = "done" /\ resp = Failure(req.via)
Succeeded == pc = "done" /\ resp = Success(req.via)

\* C1 (as claimed): the row a createAnnouncements call inserted is public with
\* group_id null when groupId is null, and private with group_id = groupId for
\* every non-null groupId.
C1_AnyNonNullIsPrivate ==
  annId # 0 =>
    /\ req.groupId = NULL => Row.visibility = "public" /\ Row.group_id = NULL
    /\ req.groupId # NULL => Row.visibility = "private" /\ Row.group_id = req.groupId

\* C1 (amended): null gives a public row with group_id null; a truthy groupId
\* (a non-empty string) gives a private row with group_id = groupId; the empty
\* string, although not null, gives a public row.
C1_VisibilityByTruthiness ==
  annId # 0 =>
    /\ req.groupId = NULL => Row.visibility = "public" /\ Row.group_id = NULL
    /\ Truthy(req.groupId) => Row.visibility = "private" /\ Row.group_id = req.groupId
    /\ req.groupId = EMPTY => Row.visibility = "public"

C1_Witness ==
  /\ annId # 0
  /\ req.groupId \in Groups
  /\ Row.visibility = "private"
  /\ \E i \in 1..Len(announcement) : announcement[i].visibility = "public"

\* C2: a group-route request whose caller has no group_members row for the
\* group, or whose membership lookup fails, is answered 403 and issues no
\* upload, no announcement insert, no announcement_files insert, no email.
C2_NonMemberGets403 ==
  (req.via = "group" /\ pc # "membership"
     /\ (~IsMember(req.userId, req.groupId) \/ lookup = "error")) =>
    /\ resp = "403"
    /\ up = <<>>
    /\ ~annIssued
    /\ annId = 0
    /\ ins = <<>>
    /\ NoEmailActivity
    /\ Len(announcement) = atStart.announcement
    /\ announcement_files = atStart.announcement_files

C2_Witness ==
  /\ req.via = "group"
  /\ pc = "done"
  /\ ~IsMember(req.userId, req.groupId)
  /\ Len(req.files) > 0
  /\ resp = "403"

\* C3 (as claimed): a creation request through a route (for the group route
\* by a member) that carries N >= 1 files, with every issued storage and
\* data-store operation accepted, is answered 201 and leaves exactly N
\* announcement_files rows that reference the announcement it created.
C3_FilesThroughRoute ==
  (/\ req.via \in RouteVias
   /\ Len(req.files) >= 1
   /\ pc = "done"
   /\ lookup \notin {"error", "missing"}
   /\ \A i \in DOMAIN up : up[i] # "error"
   /\ \A j \in DOMAIN ins : ins[j] # "error"
   /\ ~(annIssued /\ annId = 0)) =>
    /\ resp = "201"
    /\ annId # 0
    /\ Cardinality(FileRows) = Len(req.files)

\* C4: once a storage upload of a call has returned an error the call has
\* failed, and it never issues the announcement insert, an announcement_files
\* insert or an email; no row of the two tables comes from it.
C4_UploadErrorAborts ==
  (\E i \in DOMAIN up : up[i] = "error") =>
    /\ Failed
    /\ ~annIssued
    /\ annId = 0
    /\ ins = <<>>
    /\ NoEmailActivity
    /\ Len(announcement) = atStart.announcement
    /\ announcement_files = atStart.announcement_files

C4_Witness ==
  /\ Len(up) = 2
  /\ up[1] = "ok"
  /\ up[2] = "error"
  /\ Failed

\* C5 (as claimed): a failed call leaves no announcement row, and a finished
\* call that inserted an announcement row has all N announcement_files rows.
C5_AllOrNothing ==
  /\ Failed => Len(announcement) = atStart.announcement
  /\ (pc = "done" /\ annId # 0) => Cardinality(FileRows) = Len(req.files)

\* C6 (as claimed): the addresses sent to are the opted-in users for
\* groupId = null and the opted-in members of the group for a non-null
\* groupId; with no such user nothing is sent and the call succeeds.
C6_Expected ==
  IF req.groupId = NULL THEN Emails(enabled)
  ELSE Emails({u \in enabled : IsMember(u, req.groupId)})

C6_AudienceAsClaimed ==
  (pc = "done" /\ emailQueries > 0) =>
    /\ Addresses = C6_Expected
    /\ C6_Expected = {} => Succeeded

\* C6 (amended): when the group_members query, the users query and the
\* rendering succeed, the addresses sent to are the opted-in users for a null
\* or empty groupId and the opted-in members of the group for a non-empty
\* groupId; when one of them fails nothing is sent.  A non-empty groupId never
\* reaches a non-member, and the call succeeds in each of these cases.
C6_Audience ==
  /\ (pc = "done" /\ emailQueries > 0) =>
       /\ mailError = "none" =>
            Addresses = IF Truthy(req.groupId)
                        THEN Emails({u \in enabled : IsMember(u, req.groupId)})
                        ELSE Emails(enabled)
       /\ mailError # "none" => Addresses = {}
       /\ Succeeded
  /\ Truthy(req.groupId) =>
       Addresses \subseteq Emails({u \in Users : IsMember(u, req.groupId)})

C6_Witness ==
  /\ pc = "done"
  /\ req.groupId = "g1"
  /\ Addresses = {email("u1")}
  /\ enabled = {"u1", "u2"}

\* C7: every recipient of the audience gets exactly one send attempt whatever
\* the other sends do, and a call that reached the email stage answers
\* success with its announcement row and its file rows in place, whichever
\* query, rendering or send failed.
C7_NotificationIsolated ==
  /\ (\E u \in Users : sends[u] # "none") =>
       \A u \in Users : attempts[u] = IF u \in QueryUsers THEN 1 ELSE 0
  /\ emailQueries > 0 =>
       /\ annId # 0
       /\ Row.user_id = req.userId
       /\ Row.group_id = Coalesce(req.groupId, NULL)
       /\ Cardinality(FileRows) = Len(req.files)
       /\ pc = "done" => Succeeded
       /\ resp # Failure(req.via)

C7_Witness ==
  /\ pc = "done"
  /\ sends["u1"] = "failed"
  /\ sends["u2"] = "sent"
  /\ Len(req.files) = 2
  /\ Succeeded

C7_RenderErrorSwallowed ==
  pc = "done" /\ mailError = "render" /\ Succeeded

\* C8: a successful GET / returns exactly the public rows present when it was
\* answered, never a row of a group, newest first.
C8_PublicNewestFirst ==
  getResp.status = "200" =>
    LET data == getResp.data
        present == {i \in 1..Len(announcement) : announcement[i].created_at < getAsOf}
    IN /\ \A i \in 1..Len(data) :
            /\ data[i].visibility = "public"
            /\ data[i].group_id \notin Groups
            /\ \E k \in present : announcement[k].id = data[i].id
       /\ \A k \in present :
            announcement[k].visibility = "public" =>
              \E i \in 1..Len(data) : data[i].id = announcement[k].id
       /\ \A i, j \in 1..Len(data) :
            i < j => data[i].created_at > data[j].created_at
       /\ Len(data) = Cardinality({k \in present : announcement[k].visibility = "public"})

C8_Witness ==
  /\ getResp.status = "200"
  /\ Len(getResp.data) = 2
  /\ getResp.data[1].id = 2
  /\ getResp.data[2].id = 1

C8_PrivateHidden ==
  /\ getResp.status = "200"
  /\ Len(getResp.data) = 1
  /\ Len(announcement) = 2
  /\ announcement[1].visibility = "private"
  /\ getResp.data[1].id = 2
  /\ getAsOf = clock

\* C9: the announcement insert is issued only after all N uploads completed;
\* an announcement_files insert only after the announcement insert returned a
\* row, so no file row references a missing announcement; the email stage
\* only after the announcement insert and all N file inserts completed.
C9_PhasesOrdered ==
  /\ annIssued =>
       /\ Len(up) = Len(req.files)
       /\ \A i \in DOMAIN up : up[i] = "ok"
       /\ Len(fileData) = Len(req.files)
  /\ ins # <<>> =>
       /\ annId # 0
       /\ annId \in 1..Len(announcement)
       /\ Row.id = annId
  /\ \A f \in announcement_files :
       \E k \in 1..Len(announcement) : announcement[k].id = f.announcement_id
  /\ ~NoEmailActivity =>
       /\ annId # 0
       /\ Len(ins) = Len(req.files)
       /\ \A j \in DOMAIN ins : ins[j] = "ok"
       /\ Cardinality(FileRows) = Len(req.files)

C9_Witness ==
  /\ Len(req.files) = 2
  /\ fileData = <<2, 1>>
  /\ pc = "sending"
  /\ Cardinality(FileRows) = 2

\* C10 (as claimed): a private announcement for group G that came in through
\* one of the two creation endpoints was posted by a member of G.
C10_OnlyMembersPostToGroup ==
  (req.via \in RouteVias /\ annId # 0 /\ Row.visibility = "private") =>
    IsMember(req.userId, Row.group_id)

====
